---- MODULE Spec2Model ----
(***************************************************************************)
(* Model of streamlit_app.py: the metadata generator                      *)
(* (generate_basic_metadata_from_text and its helpers), the JSON export   *)
(* of display_metadata_results, the one-shot textstat warning kept in     *)
(* st.session_state, and the temporary file of the file-upload mode.      *)
(*                                                                         *)
(* A Python str is a sequence of one-character strings.  A Python value   *)
(* that reaches json.dumps is a record [kind, v] (PyInt, PyFloat, PyStr,  *)
(* PyList, PyDict, ...).  A float is held in tenths (v = 8 is 0.8).        *)
(***************************************************************************)
EXTENDS Integers, Sequences, FiniteSets, TLC

VARIABLES
  pc,             \* where the script run is: "idle", "write", "extract", "generate", "display", "finally", "crashed"
  mode,           \* the processing mode of the run: "text", "upload", "call"
  text,           \* the text argument of generate_basic_metadata_from_text (a Python value)
  filename,       \* its filename argument
  metadata,       \* the record it returned (None before)
  json_str,       \* the JSON export built by display_metadata_results
  session_state,  \* the attributes set on st.session_state
  warnings,       \* number of textstat warnings emitted in this session
  warned,         \* whether this run showed the textstat warning
  env,            \* the environment of the run: what `import textstat` does, the score
                  \* flesch_reading_ease gives, the clock
  upload,         \* the uploaded file of the current upload cycle
  tmp_file_path,  \* the local tmp_file_path of main (None while unassigned)
  tmp_files,      \* the temporary files that exist on disk
  created         \* number of temporary files created so far (names the next one)

vars == <<pc, mode, text, filename, metadata, json_str, session_state, warnings,
          warned, env, upload, tmp_file_path, tmp_files, created>>

----------------------------------------------------------------------------
(* Bounds of the model *)

\* Longest input text, in pieces of the vocabularies below.
MaxPieces == 3

\* Temporary files one session may create.
MaxUploads == 2

\* Longest input text of the entity scans, in chunks of several matches each.
MaxChunks == 2

----------------------------------------------------------------------------
(* Characters and str methods *)

UpperSeq == <<"A","B","C","D","E","F","G","H","I","J","K","L","M","N","O","P","Q","R","S","T","U","V","W","X","Y","Z">>
LowerSeq == <<"a","b","c","d","e","f","g","h","i","j","k","l","m","n","o","p","q","r","s","t","u","v","w","x","y","z">>
Upper == {UpperSeq[i] : i \in 1..26}
Lower == {LowerSeq[i] : i \in 1..26}
Digit == {"0","1","2","3","4","5","6","7","8","9"}
DigitSeq == <<"0","1","2","3","4","5","6","7","8","9">>

\* The characters str.split() splits on.
Whitespace == {" ", "\t", "\n"}

\* \w of the re module.
WordChar == Upper \cup Lower \cup Digit \cup {"_"}

ToLowerMap == [c \in Upper |-> LowerSeq[CHOOSE i \in 1..26 : UpperSeq[i] = c]]

\* str.lower()
LowerStr(s) == [i \in 1..Len(s) |-> IF s[i] \in Upper THEN ToLowerMap[s[i]] ELSE s[i]]

\* s[:n]
Prefix(s, n) == IF Len(s) <= n THEN s ELSE SubSeq(s, 1, n)

\* The least element of a non-empty set of integers
Min(S) == CHOOSE x \in S : \A y \in S : x <= y

\* The greatest element of a non-empty set of integers
Max(S) == CHOOSE x \in S : \A y \in S : y <= x

RECURSIVE FlattenRange(_, _, _)
FlattenRange(seqs, lo, hi) ==
  IF lo > hi THEN <<>>
  ELSE IF lo = hi THEN seqs[lo]
  ELSE LET mid == (lo + hi) \div 2
       IN FlattenRange(seqs, lo, mid) \o FlattenRange(seqs, mid + 1, hi)

\* The concatenation of a sequence of sequences
Flatten(seqs) == FlattenRange(seqs, 1, Len(seqs))

\* s[i], or a non-word character outside the string
At(s, i) == IF i \in 1..Len(s) THEN s[i] ELSE ""

\* The index after the longest run of characters of `chars` that starts at i.
RunEnd(s, i, chars) ==
  IF i > Len(s) THEN i
  ELSE CHOOSE j \in i..(Len(s) + 1) :
         At(s, j) \notin chars /\ \A k \in i..(j - 1) : s[k] \in chars

\* The index of the first character of `chars` at or after i (Len(s) + 1: none).
NextOf(s, i, chars) ==
  CHOOSE j \in i..(Len(s) + 1) :
    (j = Len(s) + 1 \/ s[j] \in chars) /\ \A k \in i..(j - 1) : s[k] \notin chars

\* str.split(): the maximal runs of non-whitespace characters.
Split(s) ==
  Flatten([i \in 1..Len(s) |->
    IF s[i] \notin Whitespace /\ (i = 1 \/ s[i - 1] \in Whitespace)
    THEN <<SubSeq(s, i, NextOf(s, i, Whitespace) - 1)>> ELSE <<>>])

\* str.split(sep) for a one-character sep: empty fields are kept.
SplitOn(s, sep) ==
  Flatten([i \in 1..(Len(s) + 1) |->
    IF i = 1 \/ s[i - 1] = sep
    THEN <<SubSeq(s, i, NextOf(s, i, {sep}) - 1)>> ELSE <<>>])

\* sep.join(parts)
Join(parts, sep) ==
  Flatten([i \in 1..Len(parts) |-> IF i = 1 THEN parts[1] ELSE sep \o parts[i]])

\* str.lstrip(chars)
LStrip(s, chars) == SubSeq(s, RunEnd(s, 1, chars), Len(s))

\* str.rstrip(chars)
RStrip(s, chars) ==
  LET kept == {j \in 1..Len(s) : s[j] \notin chars}
  IN IF kept = {} THEN <<>> ELSE SubSeq(s, 1, Max(kept))

\* str.strip(chars)
Strip(s, chars) == RStrip(LStrip(s, chars), chars)

\* sub in s
Contains(s, sub) ==
  \E i \in 1..(Len(s) - Len(sub) + 1) : SubSeq(s, i, i + Len(sub) - 1) = sub

\* str.endswith
EndsWith(s, suf) ==
  Len(s) >= Len(suf) /\ SubSeq(s, Len(s) - Len(suf) + 1, Len(s)) = suf

\* The elements of a sequence.
Range(seq) == {seq[i] : i \in 1..Len(seq)}

NoDuplicates(seq) == \A i, j \in 1..Len(seq) : seq[i] = seq[j] => i = j

----------------------------------------------------------------------------
(* Python values *)

None == [kind |-> "None", v |-> 0]
PyInt(n) == [kind |-> "int", v |-> n]
PyFloat(tenths) == [kind |-> "float", v |-> tenths]
PyStr(s) == [kind |-> "str", v |-> s]
PyList(xs) == [kind |-> "list", v |-> xs]
PySet(xs) == [kind |-> "set", v |-> xs]
PyDict(items) == [kind |-> "dict", v |-> items]

\* bool(x) of a str or None
Truthy(x) == x.kind = "str" /\ x.v # <<>>

\* d[key]
Get(d, key) == LET i == CHOOSE i \in 1..Len(d.v) : d.v[i][1] = key IN d.v[i][2]

\* d[key] = value, for a key d holds
Set(d, key, value) ==
  PyDict([i \in 1..Len(d.v) |-> IF d.v[i][1] = key THEN <<key, value>> ELSE d.v[i]])

\* d[group][key]
Field(d, group, key) == Get(Get(d, group), key)

\* d[group][key] = value
SetField(d, group, key, value) == Set(d, group, Set(Get(d, group), key, value))

Keys(d) == [i \in 1..Len(d.v) |-> d.v[i][1]]

----------------------------------------------------------------------------
(* preprocess_text, classify_document_type, create_metadata_schema *)

\* preprocess_text with its substitution of whitespace runs and its strip left
\* out: the text comes back as it was given.
preprocess_text_uncollapsed(t) ==
  IF ~Truthy(t) THEN <<>> ELSE t.v

\* preprocess_text(text): whitespace runs collapse to one space, ends trimmed.
preprocess_text(t) ==
  IF ~Truthy(t) THEN <<>> ELSE Join(Split(t.v), <<" ">>)

AcademicWords == {<<"a","b","s","t","r","a","c","t">>, <<"i","n","t","r","o","d","u","c","t","i","o","n">>, <<"m","e","t","h","o","d","o","l","o","g","y">>, <<"c","o","n","c","l","u","s","i","o","n">>, <<"r","e","f","e","r","e","n","c","e","s">>}
BusinessWords == {<<"e","x","e","c","u","t","i","v","e"," ","s","u","m","m","a","r","y">>, <<"b","u","s","i","n","e","s","s">>, <<"m","a","r","k","e","t">>, <<"s","t","r","a","t","e","g","y">>}
LiteraryWords == {<<"c","h","a","p","t","e","r">>, <<"n","o","v","e","l">>, <<"s","t","o","r","y">>}

\* len(text.split()) < ShortDocumentWords is a "Short Document"
ShortDocumentWords == 100

\* classify_document_type with text.lower() left out: the keywords are looked
\* for in the text as it is cased.
classify_document_type_cased(s) ==
  IF s = <<>> THEN "Unknown"
  ELSE IF \E w \in AcademicWords : Contains(s, w) THEN "Academic Paper"
  ELSE IF \E w \in BusinessWords : Contains(s, w) THEN "Business Document"
  ELSE IF \E w \in LiteraryWords : Contains(s, w) THEN "Literary Work"
  ELSE IF Len(Split(s)) < ShortDocumentWords THEN "Short Document"
  ELSE "General Document"

classify_document_type(s) ==
  IF s = <<>> THEN "Unknown"
  ELSE LET text_lower == LowerStr(s) IN
       IF \E w \in AcademicWords : Contains(text_lower, w) THEN "Academic Paper"
       ELSE IF \E w \in BusinessWords : Contains(text_lower, w) THEN "Business Document"
       ELSE IF \E w \in LiteraryWords : Contains(text_lower, w) THEN "Literary Work"
       ELSE IF Len(Split(s)) < ShortDocumentWords THEN "Short Document"
       ELSE "General Document"

\* The label as the str stored in the record
DocumentTypeName(label) ==
  CASE label = "Unknown" -> <<"U","n","k","n","o","w","n">>
    [] label = "Academic Paper" -> <<"A","c","a","d","e","m","i","c"," ","P","a","p","e","r">>
    [] label = "Business Document" -> <<"B","u","s","i","n","e","s","s"," ","D","o","c","u","m","e","n","t">>
    [] label = "Literary Work" -> <<"L","i","t","e","r","a","r","y"," ","W","o","r","k">>
    [] label = "Short Document" -> <<"S","h","o","r","t"," ","D","o","c","u","m","e","n","t">>
    [] label = "General Document" -> <<"G","e","n","e","r","a","l"," ","D","o","c","u","m","e","n","t">>

\* The keys of the record.
K_basic_info == <<"b","a","s","i","c","_","i","n","f","o">>
K_filename == <<"f","i","l","e","n","a","m","e">>
K_file_type == <<"f","i","l","e","_","t","y","p","e">>
K_file_size == <<"f","i","l","e","_","s","i","z","e">>
K_creation_date == <<"c","r","e","a","t","i","o","n","_","d","a","t","e">>
K_processing_date == <<"p","r","o","c","e","s","s","i","n","g","_","d","a","t","e">>
K_content_analysis == <<"c","o","n","t","e","n","t","_","a","n","a","l","y","s","i","s">>
K_word_count == <<"w","o","r","d","_","c","o","u","n","t">>
K_character_count == <<"c","h","a","r","a","c","t","e","r","_","c","o","u","n","t">>
K_document_type == <<"d","o","c","u","m","e","n","t","_","t","y","p","e">>
K_readability_score == <<"r","e","a","d","a","b","i","l","i","t","y","_","s","c","o","r","e">>
K_semantic_data == <<"s","e","m","a","n","t","i","c","_","d","a","t","a">>
K_summary == <<"s","u","m","m","a","r","y">>
K_key_topics == <<"k","e","y","_","t","o","p","i","c","s">>
K_entities == <<"e","n","t","i","t","i","e","s">>
K_technical_metadata == <<"t","e","c","h","n","i","c","a","l","_","m","e","t","a","d","a","t","a">>
K_extraction_method == <<"e","x","t","r","a","c","t","i","o","n","_","m","e","t","h","o","d">>
K_processing_time == <<"p","r","o","c","e","s","s","i","n","g","_","t","i","m","e">>
K_confidence_score == <<"c","o","n","f","i","d","e","n","c","e","_","s","c","o","r","e">>
K_PERSON == <<"P","E","R","S","O","N">>
K_ORG == <<"O","R","G">>
K_DATE == <<"D","A","T","E">>
K_PERCENT == <<"P","E","R","C","E","N","T">>

create_metadata_schema ==
  PyDict(<<
    <<K_basic_info, PyDict(<<
        <<K_filename, PyStr(<<>>)>>,
        <<K_file_type, PyStr(<<>>)>>,
        <<K_file_size, PyInt(0)>>,
        <<K_creation_date, PyStr(<<>>)>>,
        <<K_processing_date, PyStr(<<>>)>> >>)>>,
    <<K_content_analysis, PyDict(<<
        <<K_word_count, PyInt(0)>>,
        <<K_character_count, PyInt(0)>>,
        <<K_document_type, PyStr(<<>>)>>,
        <<K_readability_score, PyInt(0)>> >>)>>,
    <<K_semantic_data, PyDict(<<
        <<K_summary, PyStr(<<>>)>>,
        <<K_key_topics, PyList(<<>>)>>,
        <<K_entities, PyDict(<<>>)>> >>)>>,
    <<K_technical_metadata, PyDict(<<
        <<K_extraction_method, PyStr(<<>>)>>,
        <<K_processing_time, PyInt(0)>>,
        <<K_confidence_score, PyInt(0)>> >>)>> >>)

----------------------------------------------------------------------------
(* Summary and key topics of generate_basic_metadata_from_text *)

\* summary_text longer than this gets "..." appended; text[:SummaryLimit] when no sentence
SummaryLimit == 200

NoContentSummary == <<"N","o"," ","t","e","x","t"," ","c","o","n","t","e","n","t"," ","e","x","t","r","a","c","t","e","d">>

\* [s.strip() for s in parts if s.strip()]
StripAll(parts) ==
  Flatten([i \in 1..Len(parts) |->
    IF Strip(parts[i], Whitespace) = <<>> THEN <<>> ELSE <<Strip(parts[i], Whitespace)>>])

Summary(s) ==
  IF s = <<>> THEN NoContentSummary
  ELSE LET sentences == StripAll(SplitOn(s, "."))
           summary_text == IF sentences # <<>>
                           THEN Join(Prefix(sentences, 2), <<"."," ">>) \o <<".">>
                           ELSE Prefix(s, SummaryLimit)
       IN IF Len(summary_text) > SummaryLimit THEN summary_text \o <<".",".",".">> ELSE summary_text

stop_words == {<<"t","h","e">>, <<"a","n","d">>, <<"a","r","e">>, <<"f","o","r">>, <<"w","i","t","h">>, <<"t","h","i","s">>, <<"t","h","a","t">>, <<"f","r","o","m">>,
  <<"t","h","e","y">>, <<"h","a","v","e">>, <<"b","e","e","n">>, <<"w","i","l","l">>, <<"s","a","i","d">>, <<"e","a","c","h">>, <<"w","h","i","c","h">>, <<"t","h","e","i","r">>,
  <<"t","i","m","e">>, <<"b","u","t">>, <<"a","l","l">>, <<"c","a","n">>, <<"m","a","y">>, <<"w","a","s">>, <<"w","e","r","e">>, <<"n","o","t">>, <<"y","o","u">>, <<"y","o","u","r">>}

\* The characters of word.strip('.,!?;:"()[]')
StripPunctuation == {".", ",", "!", "?", ";", ":", "\"", "(", ")", "[", "]"}

\* A word is kept when it is longer than this
MinWordLen == 3

\* most_common(TopicLimit)
TopicLimit == 5

\* The test of the list comprehension: on the word as split, before it is stripped.
KeepWord(word) == Len(word) > MinWordLen /\ LowerStr(word) \notin stop_words

\* word.lower().strip(...)
CleanWord(word) == Strip(LowerStr(word), StripPunctuation)

\* [word.lower().strip(...) for word in words if <kept>]
WordsClean(words) ==
  Flatten([i \in 1..Len(words) |->
    IF KeepWord(words[i]) THEN <<CleanWord(words[i])>> ELSE <<>>])

\* The keys of Counter(ws), in insertion order.
FirstSeen(ws) ==
  Flatten([i \in 1..Len(ws) |->
    IF \E j \in 1..(i - 1) : ws[j] = ws[i] THEN <<>> ELSE <<ws[i]>>])

\* Counter(ws)[w]
Count(ws, w) == Cardinality({i \in 1..Len(ws) : ws[i] = w})

RECURSIVE MostCommon(_, _, _)
\* Counter(ws).most_common(n): by count, largest first; equal counts in insertion
\* order (heapq.nlargest is sorted(..., reverse=True)[:n], which is stable).
MostCommon(ws, keys, n) ==
  IF n = 0 \/ keys = <<>> THEN <<>>
  ELSE LET best == CHOOSE i \in 1..Len(keys) :
                     /\ \A j \in 1..Len(keys) : Count(ws, keys[j]) <= Count(ws, keys[i])
                     /\ \A j \in 1..(i - 1) : Count(ws, keys[j]) < Count(ws, keys[i])
           rest == [j \in 1..(Len(keys) - 1) |-> IF j < best THEN keys[j] ELSE keys[j + 1]]
       IN <<keys[best]>> \o MostCommon(ws, rest, n - 1)

KeyTopics(s) ==
  IF s = <<>> THEN <<>>
  ELSE LET words_clean == WordsClean(Split(s))
       IN MostCommon(words_clean, FirstSeen(words_clean), TopicLimit)

----------------------------------------------------------------------------
(* The three regex scans of generate_basic_metadata_from_text.  MatchEnd  *)
(* gives the index after the match that starts at i, or 0 when the        *)
(* pattern does not match at i.                                           *)

\* \b at the gap before s[i]
Boundary(s, i) == (At(s, i - 1) \in WordChar) # (At(s, i) \in WordChar)

\* [A-Z][a-z]+ at i.  The run of [a-z] is the longest one: what follows in the
\* pattern is \s or \b, and neither matches before a lower-case letter.
CapitalizedEnd(s, i) ==
  IF At(s, i) \in Upper /\ At(s, i + 1) \in Lower THEN RunEnd(s, i + 1, Lower) ELSE 0

RECURSIVE MoreCapitalized(_, _)
\* (?:\s+[A-Z][a-z]+)*\b from index e: greedy, giving a repetition back when
\* the rest does not match.
MoreCapitalized(s, e) ==
  LET ws == RunEnd(s, e, Whitespace)
      next == IF ws > e THEN CapitalizedEnd(s, ws) ELSE 0
      longer == IF next # 0 THEN MoreCapitalized(s, next) ELSE 0
  IN IF longer # 0 THEN longer
     ELSE IF Boundary(s, e) THEN e ELSE 0

\* \b[A-Z][a-z]+(?:\s+[A-Z][a-z]+)*\b
PersonMatchEnd(s, i) ==
  IF ~Boundary(s, i) THEN 0
  ELSE LET first == CapitalizedEnd(s, i) IN
       IF first = 0 THEN 0 ELSE MoreCapitalized(s, first)

\* \d{lo,hi} at i followed by a character of `after`: the index after the digits, or 0
DigitsThen(s, i, lo, hi, after) ==
  LET e == RunEnd(s, i, Digit) IN
  IF e - i >= lo /\ e - i <= hi /\ At(s, e) \in after THEN e ELSE 0

DateSeparator == {"/", "-"}

\* \b\d{1,2}[/-]\d{1,2}[/-]\d{2,4}\b : each run of digits is followed by a
\* separator or by \b, so it is the whole run.
NumericDateEnd(s, i) ==
  IF ~Boundary(s, i) THEN 0
  ELSE LET d1 == DigitsThen(s, i, 1, 2, DateSeparator)
           d2 == IF d1 = 0 THEN 0 ELSE DigitsThen(s, d1 + 1, 1, 2, DateSeparator)
           d3 == IF d2 = 0 THEN 0 ELSE RunEnd(s, d2 + 1, Digit)
       IN IF d2 # 0 /\ d3 - (d2 + 1) >= 2 /\ d3 - (d2 + 1) <= 4 /\ Boundary(s, d3)
          THEN d3 ELSE 0

\* \b\d{4}\b
YearEnd(s, i) ==
  IF Boundary(s, i) /\ (\A k \in 0..3 : At(s, i + k) \in Digit) /\ Boundary(s, i + 4)
  THEN i + 4 ELSE 0

\* first alternative first
DateMatchEnd(s, i) ==
  IF NumericDateEnd(s, i) # 0 THEN NumericDateEnd(s, i) ELSE YearEnd(s, i)

\* \b\d+(?:\.\d+)?%\b
PercentMatchEnd(s, i) ==
  IF ~Boundary(s, i) \/ At(s, i) \notin Digit THEN 0
  ELSE LET d == RunEnd(s, i, Digit)
           frac == IF At(s, d) = "." /\ At(s, d + 1) \in Digit
                   THEN RunEnd(s, d + 1, Digit) ELSE d
       IN IF At(s, frac) = "%" /\ Boundary(s, frac + 1) THEN frac + 1 ELSE 0

MatchEnd(pattern, s, i) ==
  CASE pattern = "PERSON" -> PersonMatchEnd(s, i)
    [] pattern = "DATE" -> DateMatchEnd(s, i)
    [] pattern = "PERCENT" -> PercentMatchEnd(s, i)

RECURSIVE FindAllFrom(_, _, _, _)
\* The scan from index i: the leftmost match, then on from its end.
FindAllFrom(pattern, s, i, acc) ==
  LET starts == {j \in i..Len(s) : MatchEnd(pattern, s, j) > j}
  IN IF starts = {} THEN acc
     ELSE LET j == Min(starts)
              e == MatchEnd(pattern, s, j)
          IN FindAllFrom(pattern, s, e, Append(acc, SubSeq(s, j, e - 1)))

\* re.findall(pattern, s): the matches from left to right, not overlapping
FindAll(pattern, s) == FindAllFrom(pattern, s, 1, <<>>)

----------------------------------------------------------------------------
(* json.dumps(metadata, indent=2) of display_metadata_results, and the    *)
(* json.loads that reads the export back.                                 *)

RECURSIVE IntToStr(_)
\* str(n) of an int n >= 0
IntToStr(n) ==
  IF n < 10 THEN <<DigitSeq[n + 1]>> ELSE IntToStr(n \div 10) \o <<DigitSeq[(n % 10) + 1]>>

DigitValue(c) == (CHOOSE i \in 1..10 : DigitSeq[i] = c) - 1

RECURSIVE StrToInt(_)
\* int(s) of a non-empty run of digits
StrToInt(s) ==
  IF Len(s) = 1 THEN DigitValue(s[1])
  ELSE 10 * StrToInt(SubSeq(s, 1, Len(s) - 1)) + DigitValue(s[Len(s)])

\* int.__repr__
IntRepr(n) == IF n < 0 THEN <<"-">> \o IntToStr(-n) ELSE IntToStr(n)

\* float.__repr__ of tenths/10: always with a fraction part ("0.0", "65.2")
FloatRepr(tenths) ==
  LET a == IF tenths < 0 THEN -tenths ELSE tenths IN
  (IF tenths < 0 THEN <<"-">> ELSE <<>>) \o IntToStr(a \div 10) \o <<".">> \o IntToStr(a % 10)

EscapeChar(c) ==
  CASE c = "\"" -> <<"\\", "\"">>
    [] c = "\\" -> <<"\\", "\\">>
    [] c = "\n" -> <<"\\", "n">>
    [] c = "\t" -> <<"\\", "t">>
    [] OTHER -> <<c>>

\* The body of a JSON string: ", \ and control characters escaped.
EscapeStr(s) == Flatten([i \in 1..Len(s) |-> EscapeChar(s[i])])

QuoteStr(s) == <<"\"">> \o EscapeStr(s) \o <<"\"">>

\* Spaces of one indentation level (indent=2)
IndentWidth == 2

Spaces(n) == [i \in 1..n |-> " "]

NewlineIndent(level) == <<"\n">> \o Spaces(IndentWidth * level)

RECURSIVE Serialisable(_)
\* What the JSON encoder takes: a set (or any other type) raises TypeError.
Serialisable(x) ==
  CASE x.kind \in {"None", "int", "float", "str"} -> TRUE
    [] x.kind = "list" -> \A i \in 1..Len(x.v) : Serialisable(x.v[i])
    [] x.kind = "dict" -> \A i \in 1..Len(x.v) : Serialisable(x.v[i][2])
    [] OTHER -> FALSE

RECURSIVE Render(_, _)
RECURSIVE RenderItems(_, _, _)
RECURSIVE RenderPairs(_, _, _)

\* The items of a list from the i-th, each on its own line
RenderItems(xs, i, level) ==
  NewlineIndent(level) \o Render(xs[i], level)
    \o (IF i = Len(xs) THEN <<>> ELSE <<",">> \o RenderItems(xs, i + 1, level))

\* The key: value pairs of a dict from the i-th
RenderPairs(items, i, level) ==
  NewlineIndent(level) \o QuoteStr(items[i][1]) \o <<":", " ">> \o Render(items[i][2], level)
    \o (IF i = Len(items) THEN <<>> ELSE <<",">> \o RenderPairs(items, i + 1, level))

\* The text of value x at indentation `level`
Render(x, level) ==
  CASE x.kind = "None" -> <<"n","u","l","l">>
    [] x.kind = "int" -> IntRepr(x.v)
    [] x.kind = "float" -> FloatRepr(x.v)
    [] x.kind = "str" -> QuoteStr(x.v)
    [] x.kind = "list" ->
         IF x.v = <<>> THEN <<"[","]">>
         ELSE <<"[">> \o RenderItems(x.v, 1, level + 1) \o NewlineIndent(level) \o <<"]">>
    [] x.kind = "dict" ->
         IF x.v = <<>> THEN <<"{","}">>
         ELSE <<"{">> \o RenderPairs(x.v, 1, level + 1) \o NewlineIndent(level) \o <<"}">>

TypeError == [kind |-> "TypeError", v |-> <<>>]

\* json.dumps(x, indent=2): a str, or TypeError raised
json_dumps(x) == IF Serialisable(x) THEN PyStr(Render(x, 0)) ELSE TypeError


JSONDecodeError == [kind |-> "JSONDecodeError", v |-> <<>>]

JsonWhitespace == {" ", "\t", "\n"}

Parsed(val, pos) == [val |-> val, pos |-> pos]

Failed == Parsed(JSONDecodeError, 0)

\* The number of backslashes right before index j, none of them before lo
BackslashesBefore(s, j, lo) ==
  CHOOSE n \in 0..(j - lo) :
    /\ \A k \in (j - n)..(j - 1) : s[k] = "\\"
    /\ n = j - lo \/ s[j - n - 1] # "\\"

Escapes == {"\"", "\\", "n", "t"}

Unescaped(c) ==
  CASE c = "n" -> "\n"
    [] c = "t" -> "\t"
    [] OTHER -> c

\* The characters of a JSON string from index i to its closing quote: the
\* first quote that no backslash escapes.
ParseStringBody(s, i) ==
  LET Closes(j) == s[j] = "\"" /\ BackslashesBefore(s, j, i) % 2 = 0
      closed == \E j \in i..Len(s) : Closes(j)
      close == CHOOSE j \in i..Len(s) : Closes(j) /\ \A k \in i..(j - 1) : ~Closes(k)
      body == SubSeq(s, i, close - 1)
      second == [k \in 1..Len(body) |-> BackslashesBefore(body, k, 1) % 2 = 1]
      valid == \A k \in 1..Len(body) :
                 /\ body[k] \notin {"\n", "\t"}
                 /\ second[k] => body[k] \in Escapes
                 /\ (body[k] = "\\" /\ ~second[k]) => k < Len(body)
  IN IF ~closed THEN Failed
     ELSE IF ~valid THEN Failed
     ELSE Parsed(PyStr(Flatten([k \in 1..Len(body) |->
                   IF second[k] THEN <<Unescaped(body[k])>>
                   ELSE IF body[k] = "\\" THEN <<>> ELSE <<body[k]>>])), close + 1)

\* A JSON number at i: an int without a fraction part, a float with one
ParseNumber(s, i) ==
  LET neg == At(s, i) = "-"
      d0 == IF neg THEN i + 1 ELSE i
      d1 == RunEnd(s, d0, Digit)
      f1 == IF At(s, d1) = "." THEN RunEnd(s, d1 + 1, Digit) ELSE d1
      sign == IF neg THEN -1 ELSE 1
  IN IF d1 = d0 THEN Failed
     ELSE IF f1 = d1 THEN Parsed(PyInt(sign * StrToInt(SubSeq(s, d0, d1 - 1))), d1)
     ELSE IF f1 = d1 + 2
          THEN Parsed(PyFloat(sign * (10 * StrToInt(SubSeq(s, d0, d1 - 1))
                                       + DigitValue(s[d1 + 1]))), f1)
     ELSE Failed

RECURSIVE ParseValue(_, _)
RECURSIVE ParseItems(_, _, _)
RECURSIVE ParsePairs(_, _, _)

\* The items of an array, the first at or after i
ParseItems(s, i, acc) ==
  LET item == ParseValue(s, i)
      j == RunEnd(s, item.pos, JsonWhitespace)
  IN IF item.val.kind = "JSONDecodeError" THEN Failed
     ELSE IF At(s, j) = "," THEN ParseItems(s, j + 1, Append(acc, item.val))
     ELSE IF At(s, j) = "]" THEN Parsed(PyList(Append(acc, item.val)), j + 1)
     ELSE Failed

\* The pairs of an object, the first key at or after i
ParsePairs(s, i, acc) ==
  LET k == RunEnd(s, i, JsonWhitespace)
      key == IF At(s, k) = "\"" THEN ParseStringBody(s, k + 1) ELSE Failed
      c == RunEnd(s, key.pos, JsonWhitespace)
      item == IF key.val.kind = "str" /\ At(s, c) = ":" THEN ParseValue(s, c + 1) ELSE Failed
      j == RunEnd(s, item.pos, JsonWhitespace)
  IN IF item.val.kind = "JSONDecodeError" THEN Failed
     ELSE IF At(s, j) = "," THEN ParsePairs(s, j + 1, Append(acc, <<key.val.v, item.val>>))
     ELSE IF At(s, j) = "}" THEN Parsed(PyDict(Append(acc, <<key.val.v, item.val>>)), j + 1)
     ELSE Failed

\* The JSON value that starts at or after i
ParseValue(s, i) ==
  LET k == RunEnd(s, i, JsonWhitespace)
      c == At(s, k)
  IN CASE c = "{" ->
            (LET j == RunEnd(s, k + 1, JsonWhitespace) IN
             IF At(s, j) = "}" THEN Parsed(PyDict(<<>>), j + 1) ELSE ParsePairs(s, k + 1, <<>>))
       [] c = "[" ->
            (LET j == RunEnd(s, k + 1, JsonWhitespace) IN
             IF At(s, j) = "]" THEN Parsed(PyList(<<>>), j + 1) ELSE ParseItems(s, k + 1, <<>>))
       [] c = "\"" -> ParseStringBody(s, k + 1)
       [] c \in Digit \cup {"-"} -> ParseNumber(s, k)
       [] c = "n" -> IF k + 3 <= Len(s) /\ SubSeq(s, k, k + 3) = <<"n","u","l","l">> THEN Parsed(None, k + 4) ELSE Failed
       [] OTHER -> Failed

\* json.loads(js): the value, or JSONDecodeError (js that is no str has no parse)
json_loads(js) ==
  IF js.kind # "str" THEN JSONDecodeError
  ELSE LET r == ParseValue(js.v, 1) IN
       IF r.val.kind # "JSONDecodeError" /\ RunEnd(js.v, r.pos, JsonWhitespace) = Len(js.v) + 1
       THEN r.val ELSE JSONDecodeError

----------------------------------------------------------------------------
(* generate_basic_metadata_from_text *)

\* entities['PERSON'] = list(set(capitalized))[:PersonLimit]
PersonLimit == 5

\* entities['DATE'] = list(set(dates))[:DateLimit]
DateLimit == 3

RECURSIVE ListsOfSet(_)
\* list(set(...)) of the elements S: a set has no defined order (str hashes are
\* randomised per process), so every order is a possible list.
ListsOfSet(S) ==
  IF S = {} THEN {<<>>}
  ELSE UNION {{<<x>> \o l : l \in ListsOfSet(S \ {x})} : x \in S}

\* matches[:limit], with set() left out: the first matches, repeated ones too
TruncatedListOfMatches(matches, limit) == {Prefix(matches, limit)}

\* The values list(set(matches))[:limit] may have
TruncatedListsOfSet(matches, limit) == {Prefix(l, limit) : l \in ListsOfSet(Range(matches))}

PersonLists(s) ==
  IF s = <<>> THEN {<<>>} ELSE TruncatedListsOfSet(FindAll("PERSON", s), PersonLimit)

DateLists(s) ==
  IF s = <<>> THEN {<<>>} ELSE TruncatedListsOfSet(FindAll("DATE", s), DateLimit)

\* entities['PERCENT'] = list(set(percentages)): not cut
PercentLists(s) ==
  IF s = <<>> THEN {<<>>} ELSE ListsOfSet(Range(FindAll("PERCENT", s)))

StrList(l) == PyList([i \in 1..Len(l) |-> PyStr(l[i])])

\* The entities with list() left out: each scan's set(...) is stored as it is
EntitiesAsSets(persons, dates, percents) ==
  PyDict(<< <<K_PERSON, PySet(Range(persons))>>, <<K_ORG, PyList(<<>>)>>,
            <<K_DATE, PySet(Range(dates))>>, <<K_PERCENT, PySet(Range(percents))>> >>)

Entities(persons, dates, percents) ==
  PyDict(<< <<K_PERSON, StrList(persons)>>, <<K_ORG, PyList(<<>>)>>,
            <<K_DATE, StrList(dates)>>, <<K_PERCENT, StrList(percents)>> >>)

\* Path(filename).suffix: from the last dot of the last path component, unless
\* that dot begins or ends the component.
Suffix(fname) ==
  LET parts == SplitOn(fname, "/")
      name == parts[Len(parts)]
      dots == {i \in 1..Len(name) : name[i] = "."}
      last == CHOOSE i \in dots : \A j \in dots : j <= i
  IN IF dots = {} THEN <<>>
     ELSE IF last > 1 /\ last < Len(name) THEN SubSeq(name, last, Len(name)) ELSE <<>>

TextstatFlag == "textstat_warning_shown"

\* The ImportError handler with the assignment of the flag left out: every
\* call finds no flag and shows the warning.
AfterImportErrorFlagUnset(ss, shown) ==
  [session_state |-> ss, warnings |-> shown + 1]

\* The ImportError handler of the readability block: the warning is shown
\* unless st.session_state has the flag, and the flag is then set.
AfterImportError(ss, shown) ==
  IF TextstatFlag \notin ss
  THEN [session_state |-> ss \cup {TextstatFlag}, warnings |-> shown + 1]
  ELSE [session_state |-> ss, warnings |-> shown]

\* The try block around `import textstat`: the score stored, and the session
\* state and number of warnings it leaves.
Readability(s, e, ss, shown) ==
  CASE e.textstat = "missing" ->
         [score |-> PyInt(0)] @@ AfterImportError(ss, shown)
    [] e.textstat = "raises" ->
         [score |-> PyInt(0), session_state |-> ss, warnings |-> shown]
    [] OTHER ->
         [score |-> IF s # <<>> /\ Strip(s, Whitespace) # <<>> THEN PyFloat(e.score) ELSE PyInt(0),
          session_state |-> ss, warnings |-> shown]

ExtractionMethod == <<"S","t","r","e","a","m","l","i","t"," ","i","n","t","e","r","f","a","c","e">>

\* confidence_score, in tenths: 0.8 if text else 0.1
ConfidenceWithText == 8
ConfidenceWithoutText == 1

\* Everything of the record but the entities, for the preprocessed text s.
BasicMetadata(s, fname, score, now, elapsed) ==
  LET m1 == SetField(create_metadata_schema, K_basic_info, K_filename, PyStr(fname))
      m2 == SetField(m1, K_basic_info, K_file_type, PyStr(Suffix(fname)))
      m3 == SetField(m2, K_basic_info, K_processing_date, PyStr(now))
      m4 == SetField(m3, K_content_analysis, K_word_count, PyInt(Len(Split(s))))
      m5 == SetField(m4, K_content_analysis, K_character_count, PyInt(Len(s)))
      m6 == SetField(m5, K_content_analysis, K_document_type,
                     PyStr(DocumentTypeName(classify_document_type(s))))
      m7 == SetField(m6, K_content_analysis, K_readability_score, score)
      m8 == SetField(m7, K_semantic_data, K_summary, PyStr(Summary(s)))
      m9 == SetField(m8, K_semantic_data, K_key_topics, StrList(KeyTopics(s)))
      m10 == SetField(m9, K_technical_metadata, K_extraction_method, PyStr(ExtractionMethod))
      m11 == SetField(m10, K_technical_metadata, K_processing_time, PyFloat(elapsed))
  IN SetField(m11, K_technical_metadata, K_confidence_score,
              PyFloat(IF s # <<>> THEN ConfidenceWithText ELSE ConfidenceWithoutText))

\* metadata['semantic_data']['entities'] = entities
WithEntities(m, entities) == SetField(m, K_semantic_data, K_entities, entities)

----------------------------------------------------------------------------
(* Text extraction of the file-upload mode *)

PdfMissingLibrary ==
  <<"[","P","D","F"," ","e","x","t","r","a","c","t","i","o","n"," ","r","e","q","u","i","r","e","s"," ","P","y","P","D","F","2"," ","l","i","b","r","a","r","y"," ","-"," ","i","n","s","t","a","l","l"," ","w","i","t","h",":"," ","p","i","p"," ","i","n","s","t","a","l","l"," ","P","y","P","D","F","2","]">>
DocxMissingLibrary ==
  <<"[","D","O","C","X"," ","e","x","t","r","a","c","t","i","o","n"," ","r","e","q","u","i","r","e","s"," ","p","y","t","h","o","n","-","d","o","c","x"," ","l","i","b","r","a","r","y"," ","-"," ","i","n","s","t","a","l","l"," ","w","i","t","h",":"," ","p","i","p"," ","i","n","s","t","a","l","l"," ","p","y","t","h","o","n","-","d","o","c","x","]">>

\* text += page + "\n" for every page (or paragraph)
PagesText(pages) == Flatten([i \in 1..Len(pages) |-> pages[i] \o <<"\n">>])

\* extract_pdf_text(file_path), for what the PyPDF2 import and reader do (lib)
extract_pdf_text(lib) ==
  CASE lib.result = "ImportError" -> PdfMissingLibrary
    [] lib.result = "Exception" -> <<"[","P","D","F"," ","e","x","t","r","a","c","t","i","o","n"," ","f","a","i","l","e","d",":"," ">> \o lib.message \o <<"]">>
    [] OTHER -> Strip(PagesText(lib.pages), Whitespace)

\* extract_docx_text(file_path), for what the docx import and Document do (lib)
extract_docx_text(lib) ==
  CASE lib.result = "ImportError" -> DocxMissingLibrary
    [] lib.result = "Exception" -> <<"[","D","O","C","X"," ","e","x","t","r","a","c","t","i","o","n"," ","f","a","i","l","e","d",":"," ">> \o lib.message \o <<"]">>
    [] OTHER -> Strip(PagesText(lib.pages), Whitespace)

\* A byte that is no valid UTF-8
InvalidByte == "<ff>"

\* bytes.decode('utf-8', errors='ignore'): the invalid bytes are dropped
Decode(bytes) == SelectSeq(bytes, LAMBDA b : b # InvalidByte)

\* How the extraction of the upload went
ExtractionStatus(name, lib) ==
  IF EndsWith(LowerStr(name), <<".","p","d","f">>) \/ EndsWith(LowerStr(name), <<".","d","o","c","x">>)
  THEN (CASE lib.result = "ImportError" -> "missing_library"
          [] lib.result = "Exception" -> "failed"
          [] OTHER -> "extracted")
  ELSE "decoded"

\* The dispatch on the file name in main
ExtractText(name, bytes, lib) ==
  IF EndsWith(LowerStr(name), <<".","p","d","f">>) THEN extract_pdf_text(lib)
  ELSE IF EndsWith(LowerStr(name), <<".","d","o","c","x">>) THEN extract_docx_text(lib)
  ELSE Decode(bytes)

NoUpload == [name |-> <<>>, bytes |-> <<>>, extraction |-> "none"]

----------------------------------------------------------------------------
(* The steps of one script run *)

\* Text Input mode: the button is pressed with text t in the text area
\* (`st.button(...) and text_input`: an empty text area starts nothing).
TextInputSubmit(t, fname) ==
  /\ pc = "idle"
  /\ t # <<>>
  /\ pc' = "generate"
  /\ mode' = "text"
  /\ text' = PyStr(t)
  /\ filename' = fname
  /\ UNCHANGED <<metadata, json_str, session_state, warnings, warned, env, upload,
                 tmp_file_path, tmp_files, created>>

\* generate_basic_metadata_from_text(text, filename)
Generate ==
  /\ pc = "generate"
  /\ LET s == preprocess_text(text)
         r == Readability(s, env, session_state, warnings)
         base == BasicMetadata(s, filename, r.score, env.now, env.elapsed)
     IN /\ \E persons \in PersonLists(s), dates \in DateLists(s), percents \in PercentLists(s) :
              metadata' = WithEntities(base, Entities(persons, dates, percents))
        /\ session_state' = r.session_state
        /\ warnings' = r.warnings
        /\ warned' = (r.warnings > warnings)
  /\ pc' = IF mode = "call" THEN "returned" ELSE "display"
  /\ UNCHANGED <<mode, text, filename, json_str, env, upload, tmp_file_path, tmp_files, created>>

\* The JSON export of display_metadata_results
JsonExport(m) == json_dumps(m)

\* display_metadata_results(metadata, preview).  A TypeError of json.dumps is
\* caught by the try of the upload mode and ends the run of the other modes.
Display ==
  /\ pc = "display"
  /\ json_str' = JsonExport(metadata)
  /\ pc' = IF mode = "upload" THEN "finally"
           ELSE IF JsonExport(metadata).kind = "str" THEN "done" ELSE "crashed"
  /\ UNCHANGED <<mode, text, filename, metadata, session_state, warnings, warned, env, upload,
                 tmp_file_path, tmp_files, created>>

\* A call of the presentation layer raises: caught by `except Exception` in the
\* upload mode, where the finally block runs next.
DisplayRaises ==
  /\ pc = "display"
  /\ mode = "upload"
  /\ pc' = "finally"
  /\ UNCHANGED <<mode, text, filename, metadata, json_str, session_state, warnings, warned, env,
                 upload, tmp_file_path, tmp_files, created>>

\* The next script run starts: the locals are gone; st.session_state and the
\* files on disk stay.
Rerun ==
  /\ pc \in {"done", "crashed"}
  /\ pc' = "idle"
  /\ mode' = "none"
  /\ text' = None
  /\ filename' = <<>>
  /\ metadata' = None
  /\ json_str' = None
  /\ upload' = NoUpload
  /\ tmp_file_path' = None
  /\ warned' = FALSE
  /\ UNCHANGED <<session_state, warnings, env, tmp_files, created>>

\* Between two runs the environment may change (textstat installed or removed).
EnvironmentChanges(e) ==
  /\ pc = "idle"
  /\ e # env
  /\ env' = e
  /\ UNCHANGED <<pc, mode, text, filename, metadata, json_str, session_state, warnings,
                 warned, upload, tmp_file_path, tmp_files, created>>

\* The k-th temporary file
TmpName(k) == PyInt(k)

\* File upload mode: the button is pressed; NamedTemporaryFile(delete=False)
\* creates the file and the with block is entered.
UploadStart(name, bytes) ==
  /\ pc = "idle"
  /\ created < MaxUploads
  /\ pc' = "write"
  /\ mode' = "upload"
  /\ upload' = [name |-> name, bytes |-> bytes, extraction |-> "none"]
  /\ created' = created + 1
  /\ tmp_files' = tmp_files \cup {TmpName(created + 1)}
  /\ UNCHANGED <<text, filename, metadata, json_str, session_state, warnings, warned, env, tmp_file_path>>

\* tmp_file.write(uploaded_file.getvalue()); tmp_file_path = tmp_file.name
UploadWrite ==
  /\ pc = "write"
  /\ pc' = "extract"
  /\ tmp_file_path' = TmpName(created)
  /\ UNCHANGED <<mode, text, filename, metadata, json_str, session_state, warnings, warned, env,
                 upload, tmp_files, created>>

\* The write raises (disk full): the with block closes the file, which was
\* opened with delete=False, and the exception leaves main before the try.
UploadWriteRaises ==
  /\ pc = "write"
  /\ pc' = "crashed"
  /\ UNCHANGED <<mode, text, filename, metadata, json_str, session_state, warnings, warned, env,
                 upload, tmp_file_path, tmp_files, created>>

\* The extraction by file type; lib is what the optional library does.
UploadExtract(lib) ==
  /\ pc = "extract"
  /\ pc' = "generate"
  /\ text' = PyStr(ExtractText(upload.name, upload.bytes, lib))
  /\ filename' = upload.name
  /\ upload' = [upload EXCEPT !.extraction = ExtractionStatus(upload.name, lib)]
  /\ UNCHANGED <<mode, metadata, json_str, session_state, warnings, warned, env, tmp_file_path,
                 tmp_files, created>>

\* os.path.exists(tmp_file_path) and os.unlink(tmp_file_path)
Unlinked(files, path) == files \ {path}

\* finally: the temporary file is removed
UploadFinally ==
  /\ pc = "finally"
  /\ tmp_files' = Unlinked(tmp_files, tmp_file_path)
  /\ pc' = "done"
  /\ UNCHANGED <<mode, text, filename, metadata, json_str, session_state, warnings, warned, env,
                 upload, tmp_file_path, created>>

----------------------------------------------------------------------------
(* Inputs *)

RECURSIVE TextsOf(_, _)
\* The texts made of at most n pieces of V
TextsOf(V, n) ==
  IF n = 0 THEN {<<>>}
  ELSE LET shorter == TextsOf(V, n - 1) IN shorter \cup {t \o p : t \in shorter, p \in V}

Repeat(s, n) == Flatten([i \in 1..n |-> s])

\* Half the words of a document that is no longer a "Short Document"
LongPiece == Repeat(<<"w"," ">>, ShortDocumentWords \div 2)

KeywordPieces == {<<"t","h","a","t",","," ">>, <<"(","t","h","i","s",")"," ","c","a","t",","," ">>, <<"w","i","t","h"," ","t","h","e"," ","d","a","t","a"," ">>,
                  <<"a","l","p","h","a"," ","b","e","t","a"," ","g","a","m","m","a"," ">>, <<"d","e","l","t","a"," ","b","e","t","a"," ","z","e","t","a"," ">>, <<"D","a","t","a","."," ">>}

ClassifyPieces == {<<"a","b","s","t","r","a","c","t">>, <<"A","B","S","T","R","A","C","T"," ">>, <<"A","b","s">>, <<"t","R","a","c","t"," ">>, <<"b","u","s","i","n","e","s","s"," ">>,
                   <<"s","t","o","r","y"," ">>}

LongChunks == {LongPiece, <<"A","n"," ","a","b","s","t","r","a","c","t","."," ">>, <<"m","a","r","k","e","t"," ">>}

PercentPieces == {<<"1","5","%">>, <<"3",".","5","%">>, <<" ">>, <<".">>, <<"1","5"," ","p","e","r","c","e","n","t">>, <<"x">>}

WhitespacePieces == {<<" ">>, <<"\n">>, <<"\t"," ">>}

NameChunks == {<<"A","l"," ","B","o",",","C","y",",","A","l",";","x","9"," ">>, <<"D","i",",","E","d","9",",","F","y",",","C","y",",","G","u","s",".">>}

DateChunks == {<<"1","/","2","/","2","0","2","0"," ","2","0","2","1"," ">>, <<"3","-","4","-","2","1",",","1","9","9","9",",","2","0","2","1"," ">>, <<"1","2","3","4","5"," ","1","/","2","/","3"," ">>}

PercentChunks == {<<"1","5","%","x"," ","3",".","5","%","y"," ","7","%","z"," ","9","%"," ">>, <<"1","%","a"," ","2","%","b"," ","1","5","%","c"," ","4","%","d"," ">>}

\* The str arguments of the function: texts of whitespace, texts of words, and
\* texts of chunks
FnBlankStrings == TextsOf(WhitespacePieces, MaxPieces)

FnWordStrings ==
  TextsOf(KeywordPieces, MaxPieces) \cup TextsOf(ClassifyPieces, MaxPieces)
    \cup TextsOf(PercentPieces, MaxPieces)

FnChunkStrings ==
  TextsOf(NameChunks, MaxChunks) \cup TextsOf(DateChunks, MaxChunks)
    \cup TextsOf(PercentChunks, MaxChunks) \cup TextsOf(LongChunks, MaxChunks)

Timestamp == <<"2","0","2","4","-","0","1","-","0","1"," ","1","2",":","0","0",":","0","0">>

\* Environments: textstat missing, raising, or giving a score (in tenths);
\* the clock's date and the elapsed time (in tenths of a second).
EnvMissing == [textstat |-> "missing", score |-> 0, now |-> Timestamp, elapsed |-> 0]
EnvRaises == [textstat |-> "raises", score |-> 0, now |-> Timestamp, elapsed |-> 1]
EnvScore == [textstat |-> "ok", score |-> 652, now |-> Timestamp, elapsed |-> 1]
EnvWholeScore == [textstat |-> "ok", score |-> 1000, now |-> Timestamp, elapsed |-> 0]

FnEnvs == {EnvMissing, EnvScore}

\* The calls of the function: None or a text of whitespace in either
\* environment, a text of words with textstat at hand, a text of chunks
\* without it (the counts, topics and scans do not read the environment).
FnCalls ==
  (({None} \cup {PyStr(t) : t \in FnBlankStrings}) \X FnEnvs)
    \cup ({PyStr(t) : t \in FnWordStrings} \X {EnvScore})
    \cup ({PyStr(t) : t \in FnChunkStrings} \X {EnvMissing})

SessionEnvs == {EnvMissing, EnvRaises, EnvScore, EnvWholeScore}

DefaultFilename == <<"u","s","e","r","_","i","n","p","u","t",".","t","x","t">>

SessionPieces == {<<"A","l"," ","s","a","i","d"," ","\"","h","i","\"","."," ">>, <<"b","a","c","k","\\","s","l","a","s","h"," ","2","0","2","0"," ">>, <<"1","5","%","x"," ","t","h","a","t",","," ">>, <<" ","\n">>}
SessionTexts == TextsOf(SessionPieces, MaxChunks)
SessionFilenames == {DefaultFilename, <<"n","o","t","e","s">>, <<"m","y"," ","\"","d","o","c","\"",".","v","2",".","m","d">>}

UploadNames == {<<"a",".","t","x","t">>, <<"r",".","p","d","f">>, <<"d",".","d","o","c","x">>, <<"R",".","P","D","F">>}
UploadBytes == {<<>>, <<"A","l"," ","1","5","%","x"," ">> \o <<InvalidByte>> \o <<"2","0","2","0">>, <<" "," ">>}

\* What the optional library does on the temporary file
LibOutcomes ==
  { [result |-> "ImportError", message |-> <<>>, pages |-> <<>>],
    [result |-> "Exception", message |-> <<"E","O","F"," ","m","a","r","k","e","r"," ","n","o","t"," ","f","o","u","n","d">>, pages |-> <<>>],
    [result |-> "ok", message |-> <<>>, pages |-> <<>>],
    [result |-> "ok", message |-> <<>>, pages |-> <<<<"A","b","s","t","r","a","c","t"," ","2","0","2","0">>, <<"t","h","a","t",","," ">>>>] }

----------------------------------------------------------------------------
(* Specifications *)

\* The function called on its own: one call of
\* generate_basic_metadata_from_text on every input.
FnInit ==
  /\ pc = "generate"
  /\ mode = "call"
  /\ \E call \in FnCalls : text = call[1] /\ env = call[2]
  /\ filename = DefaultFilename
  /\ metadata = None
  /\ json_str = None
  /\ session_state = {}
  /\ warnings = 0
  /\ warned = FALSE
  /\ upload = NoUpload
  /\ tmp_file_path = None
  /\ tmp_files = {}
  /\ created = 0

FnNext == Generate

FnSpec == FnInit /\ [][FnNext]_vars

\* A session in the Text Input mode.
Init ==
  /\ pc = "idle"
  /\ mode = "none"
  /\ text = None
  /\ filename = <<>>
  /\ metadata = None
  /\ json_str = None
  /\ session_state = {}
  /\ warnings = 0
  /\ warned = FALSE
  /\ env \in SessionEnvs
  /\ upload = NoUpload
  /\ tmp_file_path = None
  /\ tmp_files = {}
  /\ created = 0

Next ==
  \/ \E t \in SessionTexts, fname \in SessionFilenames : TextInputSubmit(t, fname)
  \/ Generate
  \/ Display
  \/ Rerun
  \/ \E e \in SessionEnvs : EnvironmentChanges(e)

Spec == Init /\ [][Next]_vars

\* A session in the file upload mode.
UploadInit ==
  /\ pc = "idle"
  /\ mode = "none"
  /\ text = None
  /\ filename = <<>>
  /\ metadata = None
  /\ json_str = None
  /\ session_state = {}
  /\ warnings = 0
  /\ warned = FALSE
  /\ env \in FnEnvs
  /\ upload = NoUpload
  /\ tmp_file_path = None
  /\ tmp_files = {}
  /\ created = 0

UploadNext ==
  \/ \E name \in UploadNames, bytes \in UploadBytes : UploadStart(name, bytes)
  \/ UploadWrite
  \/ UploadWriteRaises
  \/ \E lib \in LibOutcomes : UploadExtract(lib)
  \/ Generate
  \/ Display
  \/ DisplayRaises
  \/ UploadFinally
  \/ Rerun

UploadSpec == UploadInit /\ [][UploadNext]_vars

----------------------------------------------------------------------------
(* Properties *)

\* The str elements of a list of the record, as a sequence of texts
Texts(list) == [i \in 1..Len(list.v) |-> list.v[i].v]

WordCount == Field(metadata, K_content_analysis, K_word_count)
CharacterCount == Field(metadata, K_content_analysis, K_character_count)
DocumentType == Field(metadata, K_content_analysis, K_document_type)
ReadabilityScore == Field(metadata, K_content_analysis, K_readability_score)
SummaryText == Field(metadata, K_semantic_data, K_summary)
Topics == Texts(Field(metadata, K_semantic_data, K_key_topics))
EntityList(key) == Texts(Get(Field(metadata, K_semantic_data, K_entities), key))

\* The function has returned its record for the str or None it was called with.
Returned == pc = "returned"

AllWhitespace(s) == \A i \in 1..Len(s) : s[i] \in Whitespace

\* The input is None, the empty string, or whitespace only.
EmptyInput == text.kind = "None" \/ AllWhitespace(text.v)

\* C1: for None, the empty string and text that is empty once its whitespace
\* is collapsed, the record has word_count 0, character_count 0 and the
\* summary "No text content extracted".
C1_EmptyInputDefaults ==
  (Returned /\ EmptyInput) =>
    /\ WordCount = PyInt(0)
    /\ CharacterCount = PyInt(0)
    /\ SummaryText = PyStr(NoContentSummary)

\* A call with a non-empty text of whitespace only has returned.
C1_Witness == Returned /\ text.kind = "str" /\ Len(text.v) > 1 /\ AllWhitespace(text.v)

\* C2, as claimed: key_topics has at most 5 elements and none of them is a
\* word of the stoplist, also when the text has the word with punctuation
\* attached.
C2_TopicsExcludeStoplist ==
  Returned =>
    /\ Len(Topics) <= TopicLimit
    /\ \A i \in 1..Len(Topics) : Topics[i] \notin stop_words

\* word occurs in s, each letter in either case
ContainsAnyCase(s, word) ==
  \E i \in 1..(Len(s) - Len(word) + 1) :
    \A k \in 1..Len(word) :
      s[i + k - 1] = word[k] \/ (s[i + k - 1] \in Upper /\ ToLowerMap[s[i + k - 1]] = word[k])

\* C3: a text that contains "abstract", in any letter case, is classified
\* "Academic Paper", whatever else it contains.
C3_AbstractIsAcademic ==
  (Returned /\ text.kind = "str" /\ ContainsAnyCase(text.v, <<"a","b","s","t","r","a","c","t">>)) =>
    DocumentType = PyStr(<<"A","c","a","d","e","m","i","c"," ","P","a","p","e","r">>)

\* A text with "abstract" in mixed case and a business keyword after it has
\* been classified.
C3_Witness ==
  /\ Returned /\ text.kind = "str"
  /\ ContainsAnyCase(text.v, <<"a","b","s","t","r","a","c","t">>)
  /\ ~Contains(text.v, <<"a","b","s","t","r","a","c","t">>)
  /\ Contains(text.v, <<"b","u","s","i","n","e","s","s">>)

\* token occurs in s as the claim has it: at the start of the text or after a
\* space, and followed by a space, by punctuation or by the end of the text.
OccursAsToken(s, token) ==
  \E i \in 1..(Len(s) - Len(token) + 1) :
    /\ SubSeq(s, i, i + Len(token) - 1) = token
    /\ (i = 1 \/ s[i - 1] = " ")
    /\ At(s, i + Len(token)) \in {"", " ", ".", ",", ";", "!", "?"}

\* C4, as claimed: "15%" and "3.5%" that occur in the text are put into
\* entities['PERCENT'], and "15 percent" puts nothing into it.
C4_PercentTokensFound ==
  (Returned /\ text.kind = "str") =>
    /\ \A token \in {<<"1","5","%">>, <<"3",".","5","%">>} :
         OccursAsToken(text.v, token) => token \in Range(EntityList(K_PERCENT))
    /\ text.v = <<"1","5"," ","p","e","r","c","e","n","t">> => EntityList(K_PERCENT) = <<>>

\* C6, as claimed: the three entity lists hold no duplicate, PERSON has at most
\* 5 elements, DATE at most 3, and PERCENT is cut to a fixed count as well (the
\* larger of the two counts is taken here).
C6_EntityListsBounded ==
  Returned =>
    /\ NoDuplicates(EntityList(K_PERSON)) /\ Len(EntityList(K_PERSON)) <= PersonLimit
    /\ NoDuplicates(EntityList(K_DATE)) /\ Len(EntityList(K_DATE)) <= DateLimit
    /\ NoDuplicates(EntityList(K_PERCENT)) /\ Len(EntityList(K_PERCENT)) <= PersonLimit

\* C6, amended: the three entity lists hold no duplicate, PERSON has at most
\* 5 elements and DATE at most 3, each a choice of the distinct matches of its
\* scan; PERCENT is not cut: it holds every distinct match of the percentage
\* scan, however many there are.
C6_EntityListsDeduplicated ==
  (Returned /\ Truthy(text)) =>
    LET s == preprocess_text(text) IN
    /\ NoDuplicates(EntityList(K_PERSON)) /\ Len(EntityList(K_PERSON)) <= PersonLimit
    /\ Range(EntityList(K_PERSON)) \subseteq Range(FindAll("PERSON", s))
    /\ NoDuplicates(EntityList(K_DATE)) /\ Len(EntityList(K_DATE)) <= DateLimit
    /\ Range(EntityList(K_DATE)) \subseteq Range(FindAll("DATE", s))
    /\ NoDuplicates(EntityList(K_PERCENT))
    /\ Range(EntityList(K_PERCENT)) = Range(FindAll("PERCENT", s))

\* A text with more than 5 distinct percentages, one of them matched twice,
\* has been scanned: PERCENT holds them all, once each.
C6_Witness ==
  /\ Returned /\ Truthy(text)
  /\ Len(EntityList(K_PERCENT)) > PersonLimit
  /\ Len(FindAll("PERCENT", preprocess_text(text))) > Len(EntityList(K_PERCENT))

\* The pipeline C8 names: lowercase each word, strip its punctuation, then
\* drop the short words and the stoplist words, count, take the 5 most common.
ReferenceTopics(s) ==
  LET cleaned == [i \in 1..Len(Split(s)) |-> Strip(LowerStr(Split(s)[i]), StripPunctuation)]
      kept == SelectSeq(cleaned, LAMBDA w : Len(w) > MinWordLen /\ w \notin stop_words)
  IN MostCommon(kept, FirstSeen(kept), TopicLimit)

\* C8, as claimed: key_topics is what the reference pipeline gives, and no key
\* topic has 3 or fewer characters.
C8_TopicsMatchReference ==
  (Returned /\ Truthy(text) /\ ~AllWhitespace(text.v)) =>
    /\ Topics = ReferenceTopics(text.v)
    /\ \A i \in 1..Len(Topics) : Len(Topics[i]) > MinWordLen

\* The four groups of the record and their keys
Groups == <<K_basic_info, K_content_analysis, K_semantic_data, K_technical_metadata>>

\* C9: once display_metadata_results has built the export, it is a str, and
\* parsing it gives the record back: the four groups, every key, every value
\* with its type and every list in its order.
C9_JsonRoundTrip ==
  json_str.kind # "None" =>
    /\ json_str.kind = "str"
    /\ Keys(json_loads(json_str)) = Groups
    /\ json_loads(json_str) = metadata

\* A record with a float score, two dates in DATE, and a summary that
\* needs escaping (a quote and a backslash) has been exported.
C9_Witness ==
  /\ pc = "done" /\ json_str.kind = "str"
  /\ ReadabilityScore.kind = "float"
  /\ Len(EntityList(K_PERSON)) >= 1 /\ Len(EntityList(K_DATE)) >= 1
  /\ Contains(SummaryText.v, <<"\"">>) /\ Contains(SummaryText.v, <<"\\">>)

TextstatMissing == env.textstat = "missing"

\* C10: in one session the textstat warning is emitted at most once, by the
\* first call made while textstat is missing; the flag in st.session_state,
\* once set, stays set; and every call made while textstat is missing stores
\* readability_score 0.
C10_WarningOnce ==
  /\ [](warnings <= 1)
  /\ [](pc = "display" /\ TextstatMissing =>
          ReadabilityScore = PyInt(0) /\ TextstatFlag \in session_state)
  /\ [][(TextstatFlag \in session_state) => (TextstatFlag \in session_state')]_vars
  /\ [][(pc = "generate" /\ TextstatMissing) =>
          (warned' <=> TextstatFlag \notin session_state)]_vars
  /\ [][warnings' = IF warned' /\ pc = "generate" THEN warnings + 1 ELSE warnings]_vars

\* A later call made while textstat is missing has returned without the
\* warning, which an earlier call of the session emitted.
C10_Witness ==
  /\ pc = "display" /\ TextstatMissing
  /\ ~warned /\ warnings = 1 /\ TextstatFlag \in session_state

\* C5, as claimed: no temporary file outlives the upload cycle that created
\* it: between cycles, however the cycle ended, none is left on disk.
C5_TempFilesRemoved == pc \in {"idle", "done", "crashed"} => tmp_files = {}

ExtractionFailed == upload.extraction \in {"missing_library", "failed"}

\* C7, as claimed: when the extraction of a PDF or DOCX upload failed, the
\* record has its four groups and the content fields hold their defaults,
\* not values computed from the placeholder string.
C7_FailedExtractionDefaults ==
  (pc \in {"display", "finally", "done"} /\ mode = "upload" /\ ExtractionFailed) =>
    /\ Keys(metadata) = Groups
    /\ WordCount = PyInt(0)
    /\ CharacterCount = PyInt(0)
    /\ Topics = <<>>
    /\ \A key \in {K_PERSON, K_ORG, K_DATE, K_PERCENT} : EntityList(key) = <<>>
    /\ SummaryText = PyStr(NoContentSummary)

====
